---- MODULE Spec2Model ----
(***************************************************************************)
(* GeoLocationUtility (src/geoloc-util.py): validation of a location       *)
(* string, dispatch to the zip or the direct-geocode endpoint, and the     *)
(* normalisation of the remote outcome into one record per input.          *)
(*                                                                         *)
(* A Python str is a sequence of one-character strings.  An exception is   *)
(* a value [cls, msg, status_code]; a function that may raise returns      *)
(* Return(v) or Raise(e).  The remote service is the environment: for each *)
(* request it chooses one outcome.                                         *)
(***************************************************************************)
EXTENDS Integers, Sequences, FiniteSets, TLC

(* ------------------------------ bounds --------------------------------- *)

\* longest input drawn from the whole alphabet
MaxLen == 4
\* zip-like inputs are as long as a zip code plus this much padding
MaxPad == 1
\* longest city part of the "city,state" inputs
MaxCity == 3
\* longest batch handed to get_multiple_locations
MaxBatch == 2

(* --------------------------- characters -------------------------------- *)

\* \d{5} of both zip patterns
ZipLen == 5

Lower == {"a"}
Upper == {"A"}
Digits == {"1"}
\* str.isspace / \s : the blank and one other whitespace character
Spaces == {" ", "\n"}
Alphabet == Lower \cup Upper \cup Digits \cup Spaces \cup {",", "-", "!"}

Strings(chars, n) == UNION {[1..k -> chars] : k \in 0..n}

IsSpace(c) == c \in Spaces
IsDigit(c) == c \in Digits
IsAsciiLetter(c) == c \in Lower \cup Upper

\* \s* and \d{5} over s[lo..hi]
AllSpace(s, lo, hi) == \A k \in lo..hi : IsSpace(s[k])
AllDigit(s, lo, hi) == \A k \in lo..hi : IsDigit(s[k])

\* str.upper(), character by character
UpperChar(c) == IF c \in Lower THEN "A" ELSE c
upper(s) == [k \in 1..Len(s) |-> UpperChar(s[k])]

\* str.strip(): s without its leading and trailing whitespace
strip(s) ==
    LET idx == {k \in 1..Len(s) : ~IsSpace(s[k])}
        first == CHOOSE k \in idx : \A j \in idx : k <= j
        last == CHOOSE k \in idx : \A j \in idx : j <= k
    IN  IF idx = {} THEN <<>> ELSE SubSeq(s, first, last)

\* str.split(','): the maximal comma-free pieces, in order
RECURSIVE split(_)
split(s) ==
    LET commas == {k \in 1..Len(s) : s[k] = ","}
        c == CHOOSE k \in commas : \A j \in commas : k <= j
    IN  IF commas = {} THEN <<s>>
        ELSE <<SubSeq(s, 1, c - 1)>> \o split(SubSeq(s, c + 1, Len(s)))

\* '$' of re: at the end of the string, or just before a final newline
AtDollar(s, pos) == pos = Len(s) + 1 \/ (pos = Len(s) /\ s[Len(s)] = "\n")

\* re.match(r'^\d{5}$', s)
MatchZipStrict(s) ==
    /\ Len(s) >= ZipLen
    /\ AllDigit(s, 1, ZipLen)
    /\ AtDollar(s, ZipLen + 1)

\* re.match(r'^\s*\d{5}\s*$', s)
MatchZipLoose(s) ==
    \E i \in 0..Len(s) : \E j \in 0..Len(s) :
        /\ i + ZipLen + j <= Len(s)
        /\ AllSpace(s, 1, i)
        /\ AllDigit(s, i + 1, i + ZipLen)
        /\ AllSpace(s, i + ZipLen + 1, i + ZipLen + j)
        /\ AtDollar(s, i + ZipLen + j + 1)

\* re.sub(r'[^a-zA-Z\s-]', '', s)
CityCharKept(c) == IsAsciiLetter(c) \/ IsSpace(c) \/ c = "-"
SubCity(s) == SelectSeq(s, CityCharKept)

(* --------------------------- exceptions -------------------------------- *)

Message(text, args) == [text |-> text, args |-> args]
Exc(cls, msg, code) == [cls |-> cls, msg |-> msg, status_code |-> code]
InputValidationError(text, args) == Exc("InputValidationError", Message(text, args), 0)

\* the classes caught by "except Exception"
ExceptionClasses ==
    {"InputValidationError", "HTTPError", "ConnectionError", "JSONDecodeError",
     "AttributeError", "KeyError", "TypeError"}

Return(v) == [raised |-> FALSE, value |-> v]
Raise(e) == [raised |-> TRUE, exc |-> e]

(* --------------------------- validators -------------------------------- *)

\* _validate_zip_code without zip_code.strip()
_validate_zip_code_unstripped(zip_code) ==
    IF zip_code = <<>> THEN Raise(InputValidationError("Zip code cannot be empty", <<>>))
    ELSE IF ~MatchZipStrict(zip_code)
    THEN Raise(InputValidationError("Invalid zip code format. Must be exactly 5 digits", <<>>))
    ELSE Return(TRUE)

_validate_zip_code(zip_code) ==
    LET z == strip(zip_code)
    IN  IF z = <<>> THEN Raise(InputValidationError("Zip code cannot be empty", <<>>))
        ELSE IF ~MatchZipStrict(z)
        THEN Raise(InputValidationError("Invalid zip code format. Must be exactly 5 digits", <<>>))
        ELSE Return(TRUE)

\* _validate_city_state without the "len(state) != 2" check
_validate_city_state_any_state_length(location) ==
    LET parts == [k \in 1..Len(split(location)) |-> strip(split(location)[k])]
        cleaned == SubCity(parts[1])
    IN  IF location = <<>> \/ strip(location) = <<>>
        THEN Raise(InputValidationError("Location cannot be empty", <<>>))
        ELSE IF Len(parts) # 2
        THEN Raise(InputValidationError("Invalid city-state format. Must be 'City, ST'", <<>>))
        ELSE IF parts[1] = <<>>
        THEN Raise(InputValidationError("City name cannot be empty", <<>>))
        ELSE IF parts[2] = <<>>
        THEN Raise(InputValidationError("State code cannot be empty", <<>>))
        ELSE IF strip(cleaned) = <<>>
        THEN Raise(InputValidationError("City name contains invalid characters", <<>>))
        ELSE Return(<<cleaned, upper(parts[2])>>)

_validate_city_state(location) ==
    LET parts == [k \in 1..Len(split(location)) |-> strip(split(location)[k])]
        city == parts[1]
        state == parts[2]
        cleaned == SubCity(city)
    IN  IF location = <<>> \/ strip(location) = <<>>
        THEN Raise(InputValidationError("Location cannot be empty", <<>>))
        ELSE IF Len(parts) # 2
        THEN Raise(InputValidationError("Invalid city-state format. Must be 'City, ST'", <<>>))
        ELSE IF city = <<>>
        THEN Raise(InputValidationError("City name cannot be empty", <<>>))
        ELSE IF state = <<>>
        THEN Raise(InputValidationError("State code cannot be empty", <<>>))
        ELSE IF Len(state) # 2
        THEN Raise(InputValidationError("State must be a 2-letter code (e.g., NY, CA)", <<>>))
        ELSE IF strip(cleaned) = <<>>
        THEN Raise(InputValidationError("City name contains invalid characters", <<>>))
        ELSE Return(<<cleaned, upper(state)>>)

\* _is_zip_code with the pattern ^\d{5}$
_is_zip_code_no_whitespace(location) == MatchZipStrict(location)

_is_zip_code(location) == MatchZipLoose(location)

(* ------------------------ the remote service --------------------------- *)

\* the values of a provider record's fields, and Python's None
Str(v) == [type |-> "str", v |-> v]
Float(v) == [type |-> "float", v |-> v]
None == [type |-> "NoneType", v |-> "None"]

\* what response.json() can return
JNull == [t |-> "null", items |-> <<>>]
JStr == [t |-> "str", items |-> <<"x">>]
JDict(d) == [t |-> "dict", items |-> d]
JList(s) == [t |-> "list", items |-> s]

FullRecord ==
    [name |-> Str("Madison"), lat |-> Float("43.07"), lon |-> Float("-89.40"),
     country |-> Str("US"), state |-> Str("Wisconsin")]
NoStateRecord ==
    [name |-> Str("New York"), lat |-> Float("40.75"), lon |-> Float("-73.99"),
     country |-> Str("US")]
NoLatRecord == [name |-> Str("Madison"), lon |-> Float("-89.40"), country |-> Str("US")]
ProviderDicts == {FullRecord, NoStateRecord, NoLatRecord, <<>>}

JSONValues ==
    {JNull, JStr, JList(<<>>), JList(<<JStr>>)}
        \cup {JDict(d) : d \in ProviderDicts}
        \cup {JList(<<JDict(d)>>) : d \in ProviderDicts}

\* the status _get_by_zip turns into "not found"
HTTP_NOT_FOUND == 404

\* one outcome of one HTTP request: no response at all, or a status and a body
NoResponse == [connected |-> FALSE, status_code |-> 0, valid |-> FALSE, json |-> JNull]
HttpResponse(code, valid, j) ==
    [connected |-> TRUE, status_code |-> code, valid |-> valid, json |-> j]
ErrorStatuses == {HTTP_NOT_FOUND, 500}
OkBodies ==
    {HttpResponse(200, TRUE, j) : j \in JSONValues}
        \cup {HttpResponse(200, FALSE, JNull)}

\* requests.get: the response, or a transport failure
requests_get(outcome) ==
    IF outcome.connected THEN Return(outcome)
    ELSE Raise(Exc("ConnectionError", Message("Connection failed", <<>>), 0))

\* response.raise_for_status()
raise_for_status(response) ==
    IF response.status_code >= 400 /\ response.status_code < 600
    THEN Raise(Exc("HTTPError",
                   Message(IF response.status_code < 500 THEN "Client Error for url"
                           ELSE "Server Error for url", <<>>),
                   response.status_code))
    ELSE Return(None)

\* response.json()
json(response) ==
    IF response.valid THEN Return(response.json)
    ELSE Raise(Exc("JSONDecodeError", Message("Expecting value", <<>>), 0))

\* "not data"
Falsy(j) ==
    CASE j.t = "dict" -> DOMAIN j.items = {}
      [] j.t = "null" -> TRUE
      [] OTHER -> j.items = <<>>

\* data[0]
GetItem0(j) ==
    CASE j.t = "list" -> Return(j.items[1])
      [] j.t = "str" -> Return(JStr)
      [] j.t = "dict" -> Raise(Exc("KeyError", Message("0", <<>>), 0))
      [] OTHER -> Raise(Exc("TypeError", Message("object is not subscriptable", <<>>), 0))

\* data.get(key)
DictGet(j, key) ==
    IF j.t = "dict"
    THEN Return(IF key \in DOMAIN j.items THEN j.items[key] ELSE None)
    ELSE Raise(Exc("AttributeError", Message("object has no attribute 'get'", <<>>), 0))

(* ----------------------------- lookups --------------------------------- *)

US == <<",", "U", "S">>
API_KEY == "api_key"

\* _get_by_zip up to requests.get: the request it issues, or what it raises
_get_by_zip_send(zip_code) ==
    LET v == _validate_zip_code(zip_code)
    IN  IF v.raised THEN v
        ELSE Return([url |-> "/zip",
                     params |-> [zip |-> strip(zip_code) \o US, appid |-> API_KEY]])

\* _get_by_zip whose except clause only re-raises
_get_by_zip_except_reraise(zip_code, e) == Raise(e)

\* _get_by_zip whose except clause reports every HTTPError as "not found"
_get_by_zip_except_any_status(zip_code, e) ==
    IF e.cls = "HTTPError"
    THEN Raise(InputValidationError("Zip code {zip_code} not found", <<zip_code>>))
    ELSE Raise(e)

\* the "except requests.exceptions.HTTPError" clause of _get_by_zip
_get_by_zip_except(zip_code, e) ==
    IF e.cls = "HTTPError"
    THEN IF e.status_code = HTTP_NOT_FOUND
         THEN Raise(InputValidationError("Zip code {zip_code} not found", <<zip_code>>))
         ELSE Raise(e)
    ELSE Raise(e)

\* _get_by_zip from the outcome of requests.get on
_get_by_zip_recv(zip_code, outcome) ==
    LET got == requests_get(outcome)
        status == raise_for_status(got.value)
        data == json(got.value)
    IN  IF got.raised THEN _get_by_zip_except(zip_code, got.exc)
        ELSE IF status.raised THEN _get_by_zip_except(zip_code, status.exc)
        ELSE IF data.raised THEN _get_by_zip_except(zip_code, data.exc)
        ELSE data

\* _get_by_city_state up to requests.get
_get_by_city_state_send(location) ==
    LET v == _validate_city_state(location)
        city == v.value[1]
        state == v.value[2]
    IN  IF v.raised THEN v
        ELSE Return([url |-> "/direct",
                     params |-> [q |-> city \o <<",">> \o state \o US,
                                 limit |-> 1, appid |-> API_KEY]])

\* _get_by_city_state from the outcome of requests.get on
_get_by_city_state_recv(location, outcome) ==
    LET v == _validate_city_state(location)
        got == requests_get(outcome)
        status == raise_for_status(got.value)
        data == json(got.value)
    IN  IF got.raised THEN got
        ELSE IF status.raised THEN status
        ELSE IF data.raised THEN data
        ELSE IF Falsy(data.value)
        THEN Raise(InputValidationError("No results found for {city}, {state}",
                                        <<v.value[1], v.value[2]>>))
        ELSE GetItem0(data.value)

(* ------------------------- get_location_info --------------------------- *)

\* the branch of get_location_info that runs, and its lookup up to the request
get_location_info_send(location) ==
    IF _is_zip_code(location)
    THEN [path |-> "zip", call |-> _get_by_zip_send(location)]
    ELSE [path |-> "city_state", call |-> _get_by_city_state_send(location)]

\* ZipRecord with 'input': location.strip()
ZipRecord_trimmed_input(location, data) ==
    LET name == DictGet(data, "name")
    IN  IF name.raised THEN name
        ELSE Return([input |-> strip(location), name |-> name.value,
                     latitude |-> DictGet(data, "lat").value,
                     longitude |-> DictGet(data, "lon").value,
                     country |-> DictGet(data, "country").value,
                     type |-> "zip", status |-> "success"])

\* the success record of the zip branch
ZipRecord(location, data) ==
    LET name == DictGet(data, "name")
        lat == DictGet(data, "lat")
        lon == DictGet(data, "lon")
        country == DictGet(data, "country")
    IN  IF name.raised THEN name
        ELSE Return([input |-> location, name |-> name.value, latitude |-> lat.value,
                     longitude |-> lon.value, country |-> country.value,
                     type |-> "zip", status |-> "success"])

\* the success record of the city/state branch
CityStateRecord(location, data) ==
    LET name == DictGet(data, "name")
        lat == DictGet(data, "lat")
        lon == DictGet(data, "lon")
        country == DictGet(data, "country")
        state == DictGet(data, "state")
    IN  IF name.raised THEN name
        ELSE Return([input |-> location, name |-> name.value, latitude |-> lat.value,
                     longitude |-> lon.value, country |-> country.value,
                     state |-> state.value, type |-> "city_state", status |-> "success"])

\* the try body of get_location_info from the outcome of the request on
get_location_info_recv(location, path, outcome) ==
    LET data == IF path = "zip" THEN _get_by_zip_recv(location, outcome)
                ELSE _get_by_city_state_recv(location, outcome)
    IN  IF data.raised THEN data
        ELSE IF path = "zip" THEN ZipRecord(location, data.value)
        ELSE CityStateRecord(location, data.value)

\* get_location_info with the "except InputValidationError" clause alone
get_location_info_except_validation_only(location, outcome) ==
    IF ~outcome.raised THEN [escaped |-> FALSE, record |-> outcome.value]
    ELSE IF outcome.exc.cls = "InputValidationError"
    THEN [escaped |-> FALSE,
          record |-> [input |-> location, error |-> outcome.exc.msg,
                      status |-> "validation_error"]]
    ELSE [escaped |-> TRUE, exc |-> outcome.exc]

\* the except clauses of get_location_info: what the call ends in
get_location_info_except(location, outcome) ==
    IF ~outcome.raised THEN [escaped |-> FALSE, record |-> outcome.value]
    ELSE IF outcome.exc.cls = "InputValidationError"
    THEN [escaped |-> FALSE,
          record |-> [input |-> location, error |-> outcome.exc.msg,
                      status |-> "validation_error"]]
    ELSE IF outcome.exc.cls \in ExceptionClasses
    THEN [escaped |-> FALSE,
          record |-> [input |-> location, error |-> outcome.exc.msg, status |-> "error"]]
    ELSE [escaped |-> TRUE, exc |-> outcome.exc]

(* ------------------------------- inputs -------------------------------- *)

ZipChars == Digits \cup Spaces
CityChars == Lower \cup Digits \cup Spaces \cup {"-"}
StateParts == {<<"a", "a">>, <<" ", "a", "A">>, <<"a">>}
BatchInputs ==
    {<<>>, <<" ", "1", "1", "1", "1", "1">>, <<"a", ",", "a", "a">>, <<"a", ",", "a">>}

Inputs ==
    Strings(Alphabet, MaxLen)
        \cup Strings(ZipChars, ZipLen + MaxPad)
        \cup {c \o <<",">> \o st : c \in Strings(CityChars, MaxCity), st \in StateParts}

Batches == UNION {[1..n -> BatchInputs] : n \in 0..MaxBatch}

(* ---------------------------- the program ------------------------------ *)

VARIABLES
    locations,  \* the argument of get_multiple_locations
    idx,        \* the position the list comprehension has reached
    results,    \* the records built so far
    frame,      \* <<>>, or the get_location_info call blocked in requests.get
    requests,   \* every request sent, with the position it was sent for
    responses,  \* every outcome the remote service produced, with its position
    fault       \* <<>>, or the exception that left get_multiple_locations

vars == <<locations, idx, results, frame, requests, responses, fault>>

Init ==
    /\ locations \in {<<s>> : s \in Inputs} \cup Batches
    /\ idx = 1
    /\ results = <<>>
    /\ frame = <<>>
    /\ requests = <<>>
    /\ responses = <<>>
    /\ fault = <<>>

Running == idx <= Len(locations) /\ fault = <<>>

\* Finish that calls get_location_info again when the record is a generic error
Finish_retry_on_error(ending) ==
    IF ending.escaped
    THEN fault' = <<ending.exc>> /\ UNCHANGED <<results, idx>>
    ELSE IF ending.record.status = "error" /\ Len(requests) < 2 * Len(locations)
    THEN UNCHANGED <<results, idx, fault>>
    ELSE results' = Append(results, ending.record) /\ idx' = idx + 1 /\ fault' = fault

\* get_location_info returns a record, or its exception leaves the comprehension
Finish(ending) ==
    IF ending.escaped
    THEN fault' = <<ending.exc>> /\ UNCHANGED <<results, idx>>
    ELSE results' = Append(results, ending.record) /\ idx' = idx + 1 /\ fault' = fault

\* get_location_info(locations[idx]) raises before any request is sent
ResolveLocally ==
    /\ Running /\ frame = <<>>
    /\ LET sent == get_location_info_send(locations[idx])
       IN  /\ sent.call.raised
           /\ Finish(get_location_info_except(locations[idx], sent.call))
    /\ UNCHANGED <<locations, frame, requests, responses>>

\* get_location_info(locations[idx]) reaches requests.get and blocks in it
SendRequest ==
    /\ Running /\ frame = <<>>
    /\ LET sent == get_location_info_send(locations[idx])
       IN  /\ ~sent.call.raised
           /\ frame' = <<[path |-> sent.path, request |-> sent.call.value]>>
           /\ requests' = Append(requests, [i |-> idx, request |-> sent.call.value])
    /\ UNCHANGED <<locations, idx, results, responses, fault>>

\* requests.get ends with `outcome`, and get_location_info runs to its return
Receive(outcome) ==
    /\ Running /\ frame # <<>>
    /\ Finish(get_location_info_except(locations[idx],
                  get_location_info_recv(locations[idx], frame[1].path, outcome)))
    /\ frame' = <<>>
    /\ responses' = Append(responses, [i |-> idx, outcome |-> outcome])
    /\ UNCHANGED <<locations, requests>>

RemoteUnreachable == Receive(NoResponse)

RemoteRefuses == \E code \in ErrorStatuses : Receive(HttpResponse(code, FALSE, JNull))

RemoteAnswers == \E outcome \in OkBodies : Receive(outcome)

Next ==
    \/ ResolveLocally
    \/ SendRequest
    \/ RemoteUnreachable
    \/ RemoteRefuses
    \/ RemoteAnswers

Spec == Init /\ [][Next]_vars

(* ------------------------------ properties ----------------------------- *)

\* get_multiple_locations has returned its list
Returned == idx = Len(locations) + 1 /\ fault = <<>>

Resolved == 1..Len(results)
RequestsFor(i) == {k \in 1..Len(requests) : requests[k].i = i}
ResponsesFor(i) == {k \in 1..Len(responses) : responses[k].i = i}
IsSuccess(r) == r.status = "success" /\ "error" \notin DOMAIN r
IsFailure(r) == "error" \in DOMAIN r /\ r.status \in {"validation_error", "error"}

\* C1: get_multiple_locations returns one record per input, in input order, and
\* the record at position i carries the i-th input string exactly as supplied.
C1_SameLengthSameOrder ==
    /\ fault = <<>>
    /\ Len(results) = idx - 1
    /\ Len(results) <= Len(locations)
    /\ \A i \in Resolved : results[i].input = locations[i]
    /\ Returned => Len(results) = Len(locations)

C1_Witness ==
    /\ Returned
    /\ Len(locations) >= 2
    /\ \E i \in Resolved : IsSuccess(results[i]) /\ strip(locations[i]) # locations[i]
    /\ \E i \in Resolved : IsFailure(results[i])

\* C2: no exception leaves get_location_info or get_multiple_locations; every
\* resolved input has exactly one record, a success record without an 'error'
\* key or a failure record with one and status validation_error or error.
C2_NoFaultEscapes ==
    /\ fault = <<>>
    /\ Len(results) = idx - 1
    /\ \A i \in Resolved : IsSuccess(results[i]) # IsFailure(results[i])

C2_Witness ==
    \E i \in Resolved :
        /\ IsFailure(results[i])
        /\ results[i].status = "error"
        /\ \E k \in ResponsesFor(i) :
            responses[k].outcome.connected /\ responses[k].outcome.json.t = "list"

\* C7: in a batch the requests are sent in input order, at most one per input and
\* none before the record of the previous input exists; a failure is not retried
\* and does not end the batch; each record is that of its own input and response.
OwnRecord(i) ==
    LET sent == get_location_info_send(locations[i])
        got == responses[CHOOSE k \in ResponsesFor(i) : TRUE].outcome
    IN  IF ResponsesFor(i) = {}
        THEN get_location_info_except(locations[i], sent.call).record
        ELSE get_location_info_except(locations[i],
                 get_location_info_recv(locations[i], sent.path, got)).record

C7_SequentialNoRetry ==
    /\ fault = <<>>
    /\ \A k \in 1..Len(requests) : requests[k].i <= Len(results) + 1
    /\ \A k \in 1..Len(requests) : \A m \in 1..Len(requests) :
        k < m => requests[k].i < requests[m].i
    /\ \A i \in 1..Len(locations) :
        /\ Cardinality(RequestsFor(i)) <= 1
        /\ Cardinality(ResponsesFor(i)) <= Cardinality(RequestsFor(i))
    /\ \A i \in Resolved : results[i] = OwnRecord(i)
    /\ Returned \/ Running

C7_Witness ==
    /\ Returned
    /\ Len(locations) >= 2
    /\ results[1].status = "error"
    /\ results[2].status = "success"
    /\ Len(requests) = 2

\* the request sent for input i, and the outcome it got
RequestOf(i) == requests[CHOOSE k \in RequestsFor(i) : TRUE].request
OutcomeOf(i) == responses[CHOOSE k \in ResponsesFor(i) : TRUE].outcome
Answered == {i \in Resolved : ResponsesFor(i) # {}}

\* a string that is exactly 5 digits once the surrounding whitespace is removed
ZipShaped(s) == Len(strip(s)) = 5 /\ \A k \in 1..Len(strip(s)) : strip(s)[k] \in Digits

CommaCount(s) == Cardinality({k \in 1..Len(s) : s[k] = ","})
BeforeComma(s) == SubSeq(s, 1, (CHOOSE k \in 1..Len(s) : s[k] = ",") - 1)
AfterComma(s) == SubSeq(s, (CHOOSE k \in 1..Len(s) : s[k] = ",") + 1, Len(s))
HasNameChar(s) == \E k \in 1..Len(s) : s[k] \in Lower \cup Upper \cup {"-"}

\* the syntactically malformed inputs
Malformed(s) ==
    \/ strip(s) = <<>>
    \/ ~ZipShaped(s) /\ CommaCount(s) = 0
    \/ CommaCount(s) > 1
    \/ /\ CommaCount(s) = 1
       /\ \/ strip(BeforeComma(s)) = <<>>
          \/ strip(AfterComma(s)) = <<>>
          \/ Len(strip(AfterComma(s))) # 2
          \/ ~HasNameChar(BeforeComma(s))
    \/ s # <<>> /\ Len(s) # 5 /\ \A k \in 1..Len(s) : s[k] \in Digits

\* C3: a syntactically malformed input gets a validation_error record, and no
\* request is sent to the remote service for it.
C3_MalformedRejectedLocally ==
    /\ \A i \in Resolved :
        Malformed(locations[i]) =>
            IsFailure(results[i]) /\ results[i].status = "validation_error"
    /\ \A k \in 1..Len(requests) : ~Malformed(locations[requests[k].i])

C3_Witness ==
    \E i \in Resolved :
        /\ CommaCount(locations[i]) = 1
        /\ HasNameChar(BeforeComma(locations[i]))
        /\ Len(strip(AfterComma(locations[i]))) = 1
        /\ results[i].status = "validation_error"
        /\ requests = <<>>

\* a response that carries a provider record with the required fields
RequiredFields == {"name", "lat", "lon", "country"}
IsProviderRecord(j) == j.t = "dict" /\ RequiredFields \subseteq DOMAIN j.items
IsMatch(url, o) ==
    /\ o.connected /\ o.status_code = 200 /\ o.valid
    /\ IF url = "/zip" THEN IsProviderRecord(o.json)
       ELSE o.json.t = "list" /\ o.json.items # <<>> /\ IsProviderRecord(o.json.items[1])

\* C4: the zip endpoint is called exactly for the zip-shaped inputs, with the
\* trimmed 5-digit string and country US; every other input that passes the
\* city/state validation goes to the direct endpoint only; a match gives a success
\* record of type zip for the zip endpoint and city_state for the direct one.
C4_DispatchFollowsShape ==
    /\ \A k \in 1..Len(requests) :
        LET loc == locations[requests[k].i]
            req == requests[k].request
        IN  /\ req.url \in {"/zip", "/direct"}
            /\ req.url = "/zip" <=> ZipShaped(loc)
            /\ req.url = "/zip" => req.params.zip = strip(loc) \o <<",", "U", "S">>
            /\ req.url = "/direct" => ~_validate_city_state(loc).raised
    /\ \A i \in Resolved :
        LET loc == locations[i]
        IN  /\ ZipShaped(loc) => \E k \in RequestsFor(i) : requests[k].request.url = "/zip"
            /\ ~ZipShaped(loc) /\ ~_validate_city_state(loc).raised =>
                   /\ RequestsFor(i) # {}
                   /\ \A k \in RequestsFor(i) : requests[k].request.url = "/direct"
    /\ \A i \in Answered :
        IsMatch(RequestOf(i).url, OutcomeOf(i)) =>
            /\ IsSuccess(results[i])
            /\ results[i].type = IF RequestOf(i).url = "/zip" THEN "zip" ELSE "city_state"

C4_Witness ==
    /\ \E i \in Answered :
        /\ ZipShaped(locations[i]) /\ strip(locations[i]) # locations[i]
        /\ IsMatch("/zip", OutcomeOf(i)) /\ results[i].type = "zip"
    /\ \E i \in Answered :
        /\ IsMatch("/direct", OutcomeOf(i)) /\ results[i].type = "city_state"

\* the remote service reports no match
IsNotFound(url, o) ==
    /\ o.connected
    /\ IF url = "/zip" THEN o.status_code = HTTP_NOT_FOUND
       ELSE o.status_code = 200 /\ o.valid /\ o.json = JList(<<>>)

\* C5: when the remote service reports no match (404 on the zip endpoint, an
\* empty result list on the direct endpoint) the record is a failure record with
\* status validation_error.
C5_NotFoundIsValidationError ==
    \A i \in Answered :
        IsNotFound(RequestOf(i).url, OutcomeOf(i)) =>
            IsFailure(results[i]) /\ results[i].status = "validation_error"

C5_Witness ==
    /\ \E i \in Answered :
        RequestOf(i).url = "/zip" /\ IsNotFound("/zip", OutcomeOf(i))
    /\ \E i \in Answered :
        RequestOf(i).url = "/direct" /\ IsNotFound("/direct", OutcomeOf(i))

\* a remote failure other than not-found
IsOtherFailure(url, o) ==
    \/ ~o.connected
    \/ /\ o.status_code >= 400
       /\ ~(url = "/zip" /\ o.status_code = HTTP_NOT_FOUND)
FailureDescription(o) ==
    IF ~o.connected THEN requests_get(o).exc.msg ELSE raise_for_status(o).exc.msg

\* C6: a transport failure, an HTTP error status other than 404 on the zip
\* endpoint, or any HTTP error status on the direct endpoint gives a failure record
\* with status error whose message is the description of that failure.
C6_OtherFailureIsError ==
    \A i \in Answered :
        IsOtherFailure(RequestOf(i).url, OutcomeOf(i)) =>
            /\ IsFailure(results[i])
            /\ results[i].status = "error"
            /\ results[i].error = FailureDescription(OutcomeOf(i))

C6_Witness ==
    /\ \E i \in Answered :
        /\ RequestOf(i).url = "/zip" /\ OutcomeOf(i).status_code = 500
        /\ results[i].status = "error"
    /\ \E i \in Answered :
        RequestOf(i).url = "/direct" /\ OutcomeOf(i).status_code = HTTP_NOT_FOUND

\* C8: a success record comes only from a provider record with the required
\* fields; a response of another shape gives a failure record with status error.
C8_SuccessNeedsRequiredFields ==
    /\ \A i \in Resolved :
        IsSuccess(results[i]) =>
            /\ results[i].name # None
            /\ results[i].latitude # None
            /\ results[i].longitude # None
            /\ results[i].country # None
    /\ \A i \in Answered :
        LET o == OutcomeOf(i)
        IN  o.connected /\ o.status_code = 200 /\ o.valid /\ o.json.t = "dict"
            /\ ~IsProviderRecord(o.json) /\ RequestOf(i).url = "/zip" =>
                IsFailure(results[i]) /\ results[i].status = "error"

\* C9: an accepted city/state input yields a city that is non-empty, trimmed and
\* made of letters, spaces and hyphens only, and a state of exactly 2 characters
\* that is the uppercase form of the trimmed state part.
C9_ParsedCityStateInvariants ==
    \A k \in 1..Len(requests) :
        LET loc == locations[requests[k].i]
            v == _validate_city_state(loc)
            city == v.value[1]
            state == v.value[2]
        IN  requests[k].request.url = "/direct" =>
                /\ ~v.raised
                /\ requests[k].request.params.q = city \o <<",">> \o state \o <<",", "U", "S">>
                /\ city # <<>>
                /\ strip(city) = city
                /\ \A n \in 1..Len(city) : city[n] \in Lower \cup Upper \cup {" ", "-"}
                /\ Len(state) = 2
                /\ state = upper(strip(AfterComma(loc)))

\* C10: _is_zip_code accepts a string exactly when _validate_zip_code does, so
\* on the zip branch the two zip-format failures never occur and the only
\* validation_error of a zip-shaped input is the remote not-found.
ZipFormatFailures ==
    {"Zip code cannot be empty", "Invalid zip code format. Must be exactly 5 digits"}
C10_ClassifierAgreesWithValidator ==
    /\ \A i \in 1..Len(locations) :
        _is_zip_code(locations[i]) <=> ~_validate_zip_code(locations[i]).raised
    /\ \A i \in Resolved :
        /\ IsFailure(results[i]) => results[i].error.text \notin ZipFormatFailures
        /\ _is_zip_code(locations[i]) /\ results[i].status = "validation_error" =>
               /\ i \in Answered
               /\ OutcomeOf(i).status_code = HTTP_NOT_FOUND
               /\ results[i].error = Message("Zip code {zip_code} not found", <<locations[i]>>)

C10_Witness ==
    \E i \in Answered :
        /\ _is_zip_code(locations[i]) /\ strip(locations[i]) # locations[i]
        /\ results[i].status = "validation_error"
====
